---- MODULE Spec2Model ----
(***************************************************************************)
(* The application loader of packages/app/src/cli/models/app/loader.ts:     *)
(* the strict/report policy, the configuration file parser, the            *)
(* specification matcher, entry point probing and the load pipeline.       *)
(*                                                                         *)
(* Representation.  A name is a sequence of string tokens ("index" ".js"), *)
(* a path is a sequence of names.  A JavaScript value is a record          *)
(* [t |-> tag, v |-> payload]; the payload is read only under its tag.     *)
(* A call that may throw or report yields an outcome record                *)
(*   [st |-> "return" | "throw", val, err, calls, reps]                    *)
(* where calls is the sequence of <<path, message>> pairs the call handed  *)
(* to its AbortOrReport argument and reps those that reached               *)
(* AppErrors.addError, both in call order.                                 *)
(***************************************************************************)
EXTENDS Naturals, Integers, Sequences, FiniteSets, TLC

VARIABLES
    mode,        \* AppLoader.mode
    errors,      \* AppLoader.errors (AppErrors.errors): path -> message
    routed,      \* history: the <<path, message>> pairs handed to the policy so far
    pc,          \* position of AppLoader.loaded / of the function under test
    probe,       \* input and outcome of the function under test (function specifications)
    raised,      \* the error load() rejected with, NoError while none
    root,        \* the start directory, config name and root file of this load
    appDirectory,
    configurationPath,
    configuration,
    ext,         \* per extension configuration file: its task
    allExtensions,
    web,         \* per web configuration file: its task
    webs,
    app          \* the App load() resolved with, NoApp while none

vars == <<mode, errors, routed, pc, probe, raised, root, appDirectory,
          configurationPath, configuration, ext, allExtensions, web, webs, app>>

loadVars == <<raised, root, appDirectory, configurationPath, configuration,
              ext, allExtensions, web, webs, app>>

----------------------------------------------------------------------------
(* Bounds of the model *)

\* largest line, column and offset a decode error carries
MaxPos == 2
\* most extension configuration files the glob returns
MaxExts == 2
\* most web configuration files the glob returns
MaxWebs == 3
\* most extension and web configuration files in one project
MaxFiles == 4
\* most segments in a directory path of the root resolution
MaxDepth == 2
\* most characters in a configuration name
MaxName == 2

----------------------------------------------------------------------------
(* Names and paths *)

N(s) == <<s>>

joinPath(dir, rel) == dir \o rel

dirname(path) == SubSeq(path, 1, Len(path) - 1)

\* Array.prototype.find: the index of the first element passing Test, 0 when
\* none does
FirstIndex(s, Test(_)) ==
    IF \E i \in 1..Len(s) : Test(s[i])
    THEN CHOOSE i \in 1..Len(s) : Test(s[i]) /\ \A j \in 1..(i - 1) : ~Test(s[j])
    ELSE 0

Range(s) == {s[i] : i \in 1..Len(s)}

----------------------------------------------------------------------------
(* JavaScript values *)

Undefined == [t |-> "undefined", v |-> 0]
Null == [t |-> "null", v |-> 0]
Str(s) == [t |-> "string", v |-> s]
Num(n) == [t |-> "number", v |-> n]
Obj(fields) == [t |-> "object", v |-> fields]
PathV(p) == [t |-> "path", v |-> p]
SpecV(i) == [t |-> "specification", v |-> i]
\* a string kept as its sequence of characters
Chars(c) == [t |-> "chars", v |-> c]

\* ToBoolean of the values the loader tests
Truthy(x) ==
    CASE x.t = "undefined" -> FALSE
      [] x.t = "null" -> FALSE
      [] x.t = "string" -> x.v # ""
      [] x.t = "chars" -> x.v # <<>>
      [] x.t = "number" -> x.v # 0
      [] OTHER -> TRUE

\* a decoded document: the declared type, the declared roles, and the schemas
\* the schema validator accepts it under
Doc(type, roles, conforms) ==
    Obj([type |-> type, roles |-> roles, conformsTo |-> conforms])

\* {} as zod.TypeOf<TSchema>
EmptyObject == Doc(Undefined, Undefined, {})

----------------------------------------------------------------------------
(* Messages, errors and outcomes *)

\* an OutputMessage: which template, the path token, the interpolated text
Msg(kind, path, text) == <<kind, path, text>>

NoError ==
    [name |-> "none", message |-> Msg("", <<>>, ""),
     line |-> Undefined, col |-> Undefined, pos |-> Undefined]

AbortError(message) ==
    [name |-> "AbortError", message |-> message,
     line |-> Undefined, col |-> Undefined, pos |-> Undefined]

ZodError(path) ==
    [name |-> "ZodError", message |-> Msg("zod", path, "type"),
     line |-> Undefined, col |-> Undefined, pos |-> Undefined]

\* what decode (or readFile) threw: a message and, for TOML errors, a position
DecodeError(text, line, col, pos) ==
    [name |-> "DecodeError", message |-> Msg("decode", <<>>, text),
     line |-> line, col |-> col, pos |-> pos]

Return(v) ==
    [st |-> "return", val |-> v, err |-> NoError, calls |-> <<>>, reps |-> <<>>]

Throw(e) ==
    [st |-> "throw", val |-> Undefined, err |-> e, calls |-> <<>>, reps |-> <<>>]

\* outcome b of a call made after the call with outcome a returned
After(a, b) == [b EXCEPT !.calls = a.calls \o b.calls, !.reps = a.reps \o b.reps]

----------------------------------------------------------------------------
(* AppErrors *)

NoErrors == <<>>

\* mutant of addError: an earlier message for the path is kept
addErrorKeepingFirst(errs, path, message) ==
    [k \in (DOMAIN errs) \cup {path} |->
        IF k \in DOMAIN errs THEN errs[k] ELSE message]

\* A path of the model is absolute: the names below the root, "/a/b" being
\* <<N("a"), N("b")>>. A relative path, a string without the leading "/", is
\* the same names after the empty name.
Relative(names) == << <<>> >> \o names

\* the string "__proto__", a relative path of one name: on the plain object
\* that holds the errors an assignment to this key goes to the inherited
\* setter and makes no own key. The absolute path "/__proto__" is the ordinary
\* key <<N("__proto__")>>. The paths of a load are absolute.
ProtoKey == Relative(<<N("__proto__")>>)

\* this.errors[path] = message
addError(errs, path, message) ==
    IF path = ProtoKey
    THEN errs
    ELSE [k \in (DOMAIN errs) \cup {path} |-> IF k = path THEN message ELSE errs[k]]

isEmpty(errs) == DOMAIN errs = {}

RECURSIVE AddErrors(_, _)
\* the addError calls of one step, in call order
AddErrors(errs, reps) ==
    IF reps = <<>> THEN errs
    ELSE AddErrors(addError(errs, Head(reps)[1], Head(reps)[2]), Tail(reps))

\* history bag of policy calls: <<path, message>> -> number of calls
RECURSIVE Count(_, _)
Count(bag, reps) ==
    IF reps = <<>> THEN bag
    ELSE LET r == Head(reps)
             n == IF r \in DOMAIN bag THEN bag[r] ELSE 0
         IN  Count([k \in (DOMAIN bag) \cup {r} |-> IF k = r THEN n + 1 ELSE bag[k]],
                   Tail(reps))

----------------------------------------------------------------------------
(* The strict / report policy *)

Modes == {"strict", "report"}

\* AppLoader.abortOrReport under mode m
abortOrReport(m, errorMessage, fallback, path) ==
    IF m = "strict"
    THEN [Throw(AbortError(errorMessage)) EXCEPT !.calls = << <<path, errorMessage>> >>]
    ELSE [Return(fallback) EXCEPT !.calls = << <<path, errorMessage>> >>,
                                  !.reps = << <<path, errorMessage>> >>]

\* mutant of abort: the fallback is returned
abortReturningFallback(errorMessage, fallback, path) ==
    [Return(fallback) EXCEPT !.calls = << <<path, errorMessage>> >>]

\* AppConfigurationLoader.abort
abort(errorMessage, fallback, path) ==
    [Throw(AbortError(errorMessage)) EXCEPT !.calls = << <<path, errorMessage>> >>]

\* the AbortOrReport argument: "abort" is AppConfigurationLoader.abort, a mode
\* is AppLoader.abortOrReport bound to a loader of that mode
onProblem(policy, errorMessage, fallback, path) ==
    IF policy = "abort"
    THEN abort(errorMessage, fallback, path)
    ELSE abortOrReport(policy, errorMessage, fallback, path)

----------------------------------------------------------------------------
(* Configuration file parser *)

\* schema.safeParse: a document passes the schemas it conforms to
safeParse(schema, document) ==
    IF document.t = "object" /\ schema \in document.v.conformsTo
    THEN [success |-> TRUE, data |-> document, issues |-> ""]
    ELSE [success |-> FALSE, data |-> Undefined, issues |-> "issues"]

\* file: [exists, decoded |-> [threw, err, doc]], what fileExists answers and
\* what readFile followed by decode does for the file at filepath
loadConfigurationFile(filepath, policy, file) ==
    IF ~file.exists
    THEN onProblem(policy, Msg("NotFound", filepath, ""), Str(""), filepath)
    ELSE IF ~file.decoded.threw
    THEN Return(file.decoded.doc)
    ELSE LET err == file.decoded.err
         IN  IF Truthy(err.line) /\ Truthy(err.pos) /\ Truthy(err.col)
             THEN onProblem(policy, Msg("FixError", filepath, err.message[3]),
                            Null, filepath)
             ELSE Throw(err)

parseConfigurationFile(schema, filepath, policy, file) ==
    LET fallbackOutput == EmptyObject
        loaded == loadConfigurationFile(filepath, policy, file)
    IN  IF loaded.st = "throw" THEN loaded
        ELSE IF ~Truthy(loaded.val) THEN [loaded EXCEPT !.val = fallbackOutput]
        ELSE LET parseResult == safeParse(schema, loaded.val)
             IN  IF ~parseResult.success
                 THEN After(loaded,
                            onProblem(policy,
                                      Msg("SchemaError", filepath, parseResult.issues),
                                      fallbackOutput, filepath))
                 ELSE [loaded EXCEPT !.val = parseResult.data]

----------------------------------------------------------------------------
(* Specification registry matcher *)

Arr(set) == [t |-> "array", v |-> set]

\* the caller-supplied registry of this model: a UI kind with an external
\* identifier and an alias, the function kind, and a kind with neither
specifications ==
    << [identifier |-> "ui_extension",
        externalIdentifier |-> Str("ui_extension_external"),
        additionalIdentifiers |-> Arr({"ui_legacy"}),
        singleEntryPath |-> TRUE, schema |-> "ui_extension"],
       [identifier |-> "function",
        externalIdentifier |-> Str("function"),
        additionalIdentifiers |-> Undefined,
        singleEntryPath |-> FALSE, schema |-> "function"],
       [identifier |-> "theme",
        externalIdentifier |-> Undefined,
        additionalIdentifiers |-> Arr({}),
        singleEntryPath |-> FALSE, schema |-> "theme"] >>

\* mutant of MatchesType: a specification without aliases matches every type
MatchesTypeOrNoAliases(spec, type) ==
    \/ spec.identifier = type
    \/ spec.externalIdentifier.t = "string" /\ spec.externalIdentifier.v = type
    \/ spec.additionalIdentifiers.t = "undefined"
    \/ spec.additionalIdentifiers.t = "array" /\ type \in spec.additionalIdentifiers.v

\* the predicate of specifications.find
MatchesType(spec, type) ==
    \/ spec.identifier = type
    \/ spec.externalIdentifier.t = "string" /\ spec.externalIdentifier.v = type
    \/ spec.additionalIdentifiers.t = "array" /\ type \in spec.additionalIdentifiers.v

\* index into specs of the specification found, 0 for undefined
findSpecificationForType(specs, type) ==
    LET Test(spec) == MatchesType(spec, type) IN FirstIndex(specs, Test)

\* TypeSchema.parse: the document must be an object declaring a string type
TypeSchemaParse(path, obj) ==
    IF obj.t = "object" /\ obj.v.type.t = "string"
    THEN Return(obj.v.type)
    ELSE Throw(ZodError(path))

\* file.decoded: what readFile followed by decodeToml does for the file
findSpecificationForConfig(specs, path, policy, file) ==
    IF file.decoded.threw THEN Throw(file.decoded.err)
    ELSE LET parsed == TypeSchemaParse(path, file.decoded.doc)
         IN  IF parsed.st = "throw" THEN parsed
             ELSE LET type == parsed.val.v
                      specification == findSpecificationForType(specs, type)
                  IN  IF specification = 0
                      THEN LET r == onProblem(policy, Msg("UnknownType", path, type),
                                              Undefined, path)
                           IN  IF r.st = "throw" THEN r
                               ELSE [r EXCEPT !.val = Undefined]
                      ELSE Return(SpecV(specification))

----------------------------------------------------------------------------
(* Entry point probing *)

\* ['index'].flatMap(name => [name.js, name.jsx, name.ts, name.tsx])
IndexFileNames ==
    << <<"index", ".js">>, <<"index", ".jsx">>, <<"index", ".ts">>, <<"index", ".tsx">> >>

\* mutant of SingleEntryCandidates: the four top-level files, then the four in src
TopLevelFirstCandidates ==
    [j \in 1..(2 * Len(IndexFileNames)) |->
        IF j <= Len(IndexFileNames)
        THEN <<IndexFileNames[j]>>
        ELSE <<N("src"), IndexFileNames[j - Len(IndexFileNames)]>>]

\* mutant of SingleEntryCandidates: the four files in src, then the four top-level
SrcDirectoryFirstCandidates ==
    [j \in 1..(2 * Len(IndexFileNames)) |->
        IF j <= Len(IndexFileNames)
        THEN <<N("src"), IndexFileNames[j]>>
        ELSE <<IndexFileNames[j - Len(IndexFileNames)]>>]

\* .flatMap(fileName => [`src/${fileName}`, `${fileName}`])
SingleEntryCandidates ==
    [j \in 1..(2 * Len(IndexFileNames)) |->
        IF j % 2 = 1
        THEN <<N("src"), IndexFileNames[(j + 1) \div 2]>>
        ELSE <<IndexFileNames[j \div 2]>>]

FunctionEntryCandidates ==
    << <<N("src"), <<"index", ".js">> >>,
       <<N("src"), <<"index", ".ts">> >>,
       <<N("src"), <<"main", ".rs">> >> >>

\* (await Promise.all(candidates.map(exists ? path : undefined))).find(defined)
\* files: the set of paths for which fileExists answers true
FirstExisting(directory, candidates, files) ==
    LET Exists(rel) == joinPath(directory, rel) \in files
        i == FirstIndex(candidates, Exists)
    IN  IF i = 0 THEN Undefined ELSE PathV(joinPath(directory, candidates[i]))

findEntryPath(directory, specification, policy, files) ==
    IF specification.singleEntryPath
    THEN LET entryPath == FirstExisting(directory, SingleEntryCandidates, files)
         IN  IF ~Truthy(entryPath)
             THEN LET r == onProblem(policy, Msg("EntryMissing", directory, ""),
                                     Undefined, directory)
                  IN  IF r.st = "throw" THEN r ELSE [r EXCEPT !.val = entryPath]
             ELSE Return(entryPath)
    ELSE IF specification.identifier = "function"
    THEN Return(FirstExisting(directory, FunctionEntryCandidates, files))
    ELSE Return(Undefined)

----------------------------------------------------------------------------
(* Root configuration: file name, application directory, path *)

ShopifyApp == <<"s", "h", "o", "p", "i", "f", "y", ".", "a", "p", "p">>

DotToml == <<".", "t", "o", "m", "l">>

\* configurationFileNames.app
AppConfigurationFileName == ShopifyApp \o DotToml

\* configurationFileNames.web
WebConfigurationFileName == <<"shopify", ".web", ".toml">>

\* the characters \w matches
WordChars ==
    {"a", "b", "c", "d", "e", "f", "g", "h", "i", "j", "k", "l", "m", "n", "o", "p",
     "q", "r", "s", "t", "u", "v", "w", "x", "y", "z",
     "A", "B", "C", "D", "E", "F", "G", "H", "I", "J", "K", "L", "M", "N", "O", "P",
     "Q", "R", "S", "T", "U", "V", "W", "X", "Y", "Z",
     "0", "1", "2", "3", "4", "5", "6", "7", "8", "9", "_"}

\* /^shopify\.app(\.[-\w]+)?\.toml$/ on a sequence of characters
validFileRegex(c) ==
    /\ Len(c) >= Len(ShopifyApp) + Len(DotToml)
    /\ SubSeq(c, 1, Len(ShopifyApp)) = ShopifyApp
    /\ SubSeq(c, Len(c) - Len(DotToml) + 1, Len(c)) = DotToml
    /\ LET middle == SubSeq(c, Len(ShopifyApp) + 1, Len(c) - Len(DotToml))
       IN  \/ middle = <<>>
           \/ /\ Len(middle) >= 2
              /\ middle[1] = "."
              /\ \A i \in 2..Len(middle) : middle[i] \in WordChars \cup {"-"}

getAppConfigurationFileName(config) ==
    IF Truthy(config)
    THEN IF validFileRegex(config.v)
         THEN config.v
         ELSE ShopifyApp \o <<".">> \o config.v \o DotToml
    ELSE AppConfigurationFileName

\* mutant of getAppDirectory: the walk answers the match farthest from the start
getAppDirectoryFarthest(r) ==
    IF ~r.exists
    THEN Throw(AbortError(Msg("NoDirectory", r.directory, "")))
    ELSE LET found == {k \in 0..Len(r.directory) : SubSeq(r.directory, 1, k) \in r.tomlDirs}
         IN  IF found # {}
             THEN Return(PathV(SubSeq(r.directory, 1,
                                      CHOOSE k \in found : \A j \in found : k <= j)))
             ELSE Throw(AbortError(Msg("NoAppConfig", r.directory, "")))

\* r: the start directory, whether it exists, and the directories in which the
\* glob shopify.app*.toml finds a file
getAppDirectory(r) ==
    IF ~r.exists
    THEN Throw(AbortError(Msg("NoDirectory", r.directory, "")))
    ELSE LET found == {k \in 0..Len(r.directory) : SubSeq(r.directory, 1, k) \in r.tomlDirs}
         IN  IF found # {}
             THEN Return(PathV(SubSeq(r.directory, 1,
                                      CHOOSE k \in found : \A j \in found : j <= k)))
             ELSE Throw(AbortError(Msg("NoAppConfig", r.directory, "")))

\* this.configName ?? getAppInfo(appDirectory)?.configFile
effectiveConfigName(r) ==
    IF r.configName.t \in {"undefined", "null"} THEN r.cachedConfigFile ELSE r.configName

\* mutant of getConfigurationPath: the configuration name is ignored
getConfigurationPathOfDefaultName(r, directory) ==
    LET path == joinPath(directory, <<AppConfigurationFileName>>)
    IN  IF path \in r.configFiles
        THEN Return(PathV(path))
        ELSE Throw(AbortError(Msg("NoConfigurationFile", r.directory, "")))

getConfigurationPath(r, directory) ==
    LET configurationFileName == getAppConfigurationFileName(effectiveConfigName(r))
        path == joinPath(directory, <<configurationFileName>>)
    IN  IF path \in r.configFiles
        THEN Return(PathV(path))
        ELSE Throw(AbortError(Msg("NoConfigurationFile", r.directory, "")))

----------------------------------------------------------------------------
(* Web resolver *)

\* 'roles' in config ? config.roles : [], plus config.type when 'type' in config
\* the Web of a parsed configuration: the roles of the list and the legacy
\* type, the directory of the file
processedWeb(path, parsedConfiguration) ==
    LET config == parsedConfiguration.v
        declared == IF config.roles.t = "array" THEN config.roles.v ELSE {}
        roles == IF config.type.t = "string"
                 THEN declared \cup {config.type.v}
                 ELSE declared
    IN  [directory |-> dirname(path), configuration |-> [roles |-> roles]]

loadWeb(path, policy, file) ==
    LET parsed == parseConfigurationFile("web", path, policy, file)
    IN  IF parsed.st = "throw" THEN parsed
        ELSE [parsed EXCEPT !.val = processedWeb(path, parsed.val)]

WebsOfType(ws, webType) ==
    SelectSeq(ws, LAMBDA w : webType \in w.configuration.roles)

\* mutant of validateWebsOfType: the first web of the role is the one flagged
validateWebsOfTypeFlaggingFirst(ws, policy, webType) ==
    LET websOfType == WebsOfType(ws, webType)
    IN  IF Len(websOfType) > 1
        THEN onProblem(policy, Msg("RoleConflict", <<>>, webType), Undefined,
                       joinPath(websOfType[1].directory, <<WebConfigurationFileName>>))
        ELSE Return(Undefined)

\* one turn of the forEach of validateWebs
validateWebsOfType(ws, policy, webType) ==
    LET websOfType == WebsOfType(ws, webType)
    IN  IF Len(websOfType) > 1
        THEN onProblem(policy, Msg("RoleConflict", <<>>, webType), Undefined,
                       joinPath(websOfType[2].directory, <<WebConfigurationFileName>>))
        ELSE Return(Undefined)

\* mutant of validateWebs: only the backend role is validated
validateWebsBackendOnly(ws, policy) == validateWebsOfType(ws, policy, "backend")

\* mutant of validateWebs: the frontend role is validated before the backend role
validateWebsFrontendFirst(ws, policy) ==
    LET frontend == validateWebsOfType(ws, policy, "frontend")
    IN  IF frontend.st = "throw" THEN frontend
        ELSE After(frontend, validateWebsOfType(ws, policy, "backend"))

validateWebs(ws, policy) ==
    LET backend == validateWebsOfType(ws, policy, "backend")
    IN  IF backend.st = "throw" THEN backend
        ELSE After(backend, validateWebsOfType(ws, policy, "frontend"))

----------------------------------------------------------------------------
(* Values shared by the specifications *)

NoApp == [returned |-> FALSE]

NoRoot == [directory |-> <<>>]

NoOutcome == [st |-> "none"]

\* no load is running: the state of the load pipeline in the function specifications
NoLoad ==
    /\ raised = NoError
    /\ root = NoRoot
    /\ appDirectory = <<>>
    /\ configurationPath = <<>>
    /\ configuration = Undefined
    /\ ext = <<>>
    /\ allExtensions = <<>>
    /\ web = <<>>
    /\ webs = <<>>
    /\ app = NoApp

----------------------------------------------------------------------------
(* The load pipeline: AppLoader.loaded *)

\* getArrayRejectingUndefined of the task results
RECURSIVE RejectingUndefined(_)
RejectingUndefined(results) ==
    IF results = <<>> THEN <<>>
    ELSE IF Head(results).t = "undefined"
    THEN RejectingUndefined(Tail(results))
    ELSE <<Head(results).v>> \o RejectingUndefined(Tail(results))

\* mutant of loadedApp: the ErrorSet is attached whether or not it is empty
loadedAppAlwaysWithErrors(directory, config, path, ws, extensions, errs) ==
    [returned |-> TRUE, directory |-> directory, configuration |-> config,
     configurationPath |-> path, webs |-> ws, allExtensions |-> extensions,
     errors |-> [set |-> TRUE, value |-> errs]]

\* new App(...) and `if (!this.errors.isEmpty()) appClass.errors = this.errors`
loadedApp(directory, config, path, ws, extensions, errs) ==
    [returned |-> TRUE, directory |-> directory, configuration |-> config,
     configurationPath |-> path, webs |-> ws, allExtensions |-> extensions,
     errors |-> IF ~isEmpty(errs)
                THEN [set |-> TRUE, value |-> errs]
                ELSE [set |-> FALSE, value |-> NoErrors]]

\* a step of the load with outcome out: its addError calls and policy calls
Effects(out) ==
    /\ errors' = AddErrors(errors, out.reps)
    /\ routed' = Count(routed, out.calls)

\* a task of a Promise.all rejected with err: the first rejection rejects load()
Rejects(err) ==
    IF pc = "raised"
    THEN UNCHANGED <<pc, raised>>
    ELSE pc' = "raised" /\ raised' = err

GetAppDirectory ==
    /\ pc = "getAppDirectory"
    /\ LET out == getAppDirectory(root)
       IN  IF out.st = "throw"
           THEN pc' = "raised" /\ raised' = out.err /\ UNCHANGED appDirectory
           ELSE pc' = "getConfigurationPath" /\ appDirectory' = out.val.v
                /\ UNCHANGED raised
    /\ UNCHANGED <<mode, errors, routed, probe, root, configurationPath, configuration,
                   ext, allExtensions, web, webs, app>>

GetConfigurationPath ==
    /\ pc = "getConfigurationPath"
    /\ LET out == getConfigurationPath(root, appDirectory)
       IN  IF out.st = "throw"
           THEN pc' = "raised" /\ raised' = out.err /\ UNCHANGED configurationPath
           ELSE pc' = "parseConfiguration" /\ configurationPath' = out.val.v
                /\ UNCHANGED raised
    /\ UNCHANGED <<mode, errors, routed, probe, root, appDirectory, configuration,
                   ext, allExtensions, web, webs, app>>

\* parseConfigurationFile(AppConfigurationSchema, configurationPath, this.abort)
ParseAppConfiguration ==
    /\ pc = "parseConfiguration"
    /\ LET file == [exists |-> configurationPath \in root.configFiles,
                    decoded |-> root.content]
           out == parseConfigurationFile("app", configurationPath, "abort", file)
       IN  /\ Effects(out)
           /\ IF out.st = "throw"
              THEN pc' = "raised" /\ raised' = out.err /\ UNCHANGED configuration
              ELSE pc' = "loadExtensions" /\ configuration' = out.val
                   /\ UNCHANGED raised
    /\ UNCHANGED <<mode, probe, root, appDirectory, configurationPath,
                   ext, allExtensions, web, webs, app>>

\* the extension configuration files of this load and what the file system holds
\* for each: the decode outcome of the file, the source files of its directory,
\* and what ExtensionInstance.validate will answer
ExtensionsDirectory(directory) == joinPath(directory, <<N("extensions")>>)

ExtensionConfigurationPath(directory, d, i) ==
    joinPath(ExtensionsDirectory(directory),
             << <<"ext", ToString(d)>>, <<"e", ToString(i), ".extension", ".toml">> >>)

\* directory numbers of n files, numbered in order of first appearance
DirectoryAssignments(n) ==
    {d \in [1..n -> 1..n] :
        \A i \in 1..n : d[i] <= 1 + Cardinality({d[j] : j \in 1..(i - 1)})
                         /\ (i = 1 => d[i] = 1)}

\* glob(extensionConfigPaths) answered n files of the kinds `kinds`
GlobExtensions(catalog) ==
    /\ pc = "loadExtensions"
    /\ \E n \in 0..MaxExts :
         \E kinds \in [1..n -> catalog], d \in DirectoryAssignments(n) :
            /\ \A i, j \in 1..n : d[i] = d[j] => kinds[i].sources = kinds[j].sources
            /\ ext' = [i \in 1..n |->
                  LET path == ExtensionConfigurationPath(appDirectory, d[i], i)
                  IN  [configurationPath |-> path,
                       file |-> [exists |-> TRUE, decoded |-> kinds[i].decoded],
                       files |-> {joinPath(dirname(path), rel) : rel \in kinds[i].sources},
                       validateOk |-> kinds[i].validateOk,
                       pc |-> "findSpecification",
                       specification |-> 0,
                       configuration |-> Undefined,
                       entryPath |-> Undefined,
                       result |-> Undefined]]
    /\ pc' = "extensions"
    /\ UNCHANGED <<mode, errors, routed, probe, raised, root, appDirectory,
                   configurationPath, configuration, allExtensions, web, webs, app>>

\* the task of file i up to the return of findSpecificationForConfig
ExtFindSpecification(i) ==
    /\ ext[i].pc = "findSpecification"
    /\ LET out == findSpecificationForConfig(specifications, ext[i].configurationPath,
                                             mode, ext[i].file)
       IN  /\ Effects(out)
           /\ IF out.st = "throw"
              THEN /\ ext' = [ext EXCEPT ![i].pc = "rejected"]
                   /\ Rejects(out.err)
              ELSE /\ ext' = IF out.val.t = "undefined"
                              THEN [ext EXCEPT ![i].pc = "done"]
                              ELSE [ext EXCEPT ![i].pc = "parseConfiguration",
                                               ![i].specification = out.val.v]
                   /\ UNCHANGED <<pc, raised>>
    /\ UNCHANGED <<mode, probe, root, appDirectory, configurationPath, configuration,
                   allExtensions, web, webs, app>>

\* this.parseConfigurationFile(specification.schema, configurationPath)
ExtParseConfiguration(i) ==
    /\ ext[i].pc = "parseConfiguration"
    /\ LET out == parseConfigurationFile(specifications[ext[i].specification].schema,
                                         ext[i].configurationPath, mode, ext[i].file)
       IN  /\ Effects(out)
           /\ IF out.st = "throw"
              THEN /\ ext' = [ext EXCEPT ![i].pc = "rejected"]
                   /\ Rejects(out.err)
              ELSE /\ ext' = [ext EXCEPT ![i].pc = "findEntryPath",
                                          ![i].configuration = out.val]
                   /\ UNCHANGED <<pc, raised>>
    /\ UNCHANGED <<mode, probe, root, appDirectory, configurationPath, configuration,
                   allExtensions, web, webs, app>>

\* this.findEntryPath(directory, specification)
ExtFindEntryPath(i) ==
    /\ ext[i].pc = "findEntryPath"
    /\ LET out == findEntryPath(dirname(ext[i].configurationPath),
                                specifications[ext[i].specification], mode, ext[i].files)
       IN  /\ Effects(out)
           /\ IF out.st = "throw"
              THEN /\ ext' = [ext EXCEPT ![i].pc = "rejected"]
                   /\ Rejects(out.err)
              ELSE /\ ext' = [ext EXCEPT ![i].pc = "validate",
                                          ![i].entryPath = out.val]
                   /\ UNCHANGED <<pc, raised>>
    /\ UNCHANGED <<mode, probe, root, appDirectory, configurationPath, configuration,
                   allExtensions, web, webs, app>>

\* new ExtensionInstance(...), extensionInstance.validate() and what follows
validateExtension(task, policy) ==
    LET extensionInstance ==
            [t |-> "extension",
             v |-> [configuration |-> task.configuration,
                    configurationPath |-> task.configurationPath,
                    entryPath |-> task.entryPath,
                    directory |-> dirname(task.configurationPath),
                    specification |-> task.specification]]
    IN  IF ~task.validateOk
        THEN LET r == onProblem(policy, Msg("Validation", <<>>, "validate"),
                                Undefined, task.configurationPath)
             IN  IF r.st = "throw" THEN r ELSE [r EXCEPT !.val = extensionInstance]
        ELSE Return(extensionInstance)

ExtValidate(i) ==
    /\ ext[i].pc = "validate"
    /\ LET out == validateExtension(ext[i], mode)
       IN  /\ Effects(out)
           /\ IF out.st = "throw"
              THEN /\ ext' = [ext EXCEPT ![i].pc = "rejected"]
                   /\ Rejects(out.err)
              ELSE /\ ext' = [ext EXCEPT ![i].pc = "done", ![i].result = out.val]
                   /\ UNCHANGED <<pc, raised>>
    /\ UNCHANGED <<mode, probe, root, appDirectory, configurationPath, configuration,
                   allExtensions, web, webs, app>>

ExtensionTask ==
    \E i \in 1..Len(ext) :
        \/ ExtFindSpecification(i)
        \/ ExtParseConfiguration(i)
        \/ ExtFindEntryPath(i)
        \/ ExtValidate(i)

\* await Promise.all(extensions) resolved: every task returned
\* mutant of JoinExtensions: the results are collected last file first
JoinExtensionsLastFirst ==
    /\ pc = "extensions"
    /\ \A i \in 1..Len(ext) : ext[i].pc = "done"
    /\ allExtensions' =
          RejectingUndefined([i \in 1..Len(ext) |-> ext[Len(ext) + 1 - i].result])
    /\ pc' = "loadWebs"
    /\ UNCHANGED <<mode, errors, routed, probe, raised, root, appDirectory,
                   configurationPath, configuration, ext, web, webs, app>>

JoinExtensions ==
    /\ pc = "extensions"
    /\ \A i \in 1..Len(ext) : ext[i].pc = "done"
    /\ allExtensions' = RejectingUndefined([i \in 1..Len(ext) |-> ext[i].result])
    /\ pc' = "loadWebs"
    /\ UNCHANGED <<mode, errors, routed, probe, raised, root, appDirectory,
                   configurationPath, configuration, ext, web, webs, app>>

WebConfigurationPath(directory, i) ==
    joinPath(directory, << N("web"), <<"w", ToString(i)>>, WebConfigurationFileName >>)

\* glob(webConfigGlobs) answered n files of the kinds `kinds`
GlobWebs(catalog) ==
    /\ pc = "loadWebs"
    /\ \E n \in 0..MaxWebs :
         \E kinds \in [1..n -> catalog] :
            /\ Len(ext) + n <= MaxFiles
            /\ web' = [i \in 1..n |->
                        [path |-> WebConfigurationPath(appDirectory, i),
                         file |-> [exists |-> TRUE, decoded |-> kinds[i]],
                         pc |-> "loadWeb",
                         configuration |-> Undefined,
                         result |-> Undefined]]
    /\ pc' = "webs"
    /\ UNCHANGED <<mode, errors, routed, probe, raised, root, appDirectory,
                   configurationPath, configuration, ext, allExtensions, webs, app>>

\* the task of web file i up to the return of parseConfigurationFile
WebParseConfiguration(i) ==
    /\ web[i].pc = "loadWeb"
    /\ LET out == parseConfigurationFile("web", web[i].path, mode, web[i].file)
       IN  /\ Effects(out)
           /\ IF out.st = "throw"
              THEN /\ web' = [web EXCEPT ![i].pc = "rejected"]
                   /\ Rejects(out.err)
              ELSE /\ web' = [web EXCEPT ![i].pc = "resolveFramework",
                                          ![i].configuration = out.val]
                   /\ UNCHANGED <<pc, raised>>
    /\ UNCHANGED <<mode, probe, root, appDirectory, configurationPath, configuration,
                   ext, allExtensions, webs, app>>

\* await resolveFramework(...) resolved: the task of web file i returns its Web
WebResolveFramework(i) ==
    /\ web[i].pc = "resolveFramework"
    /\ web' = [web EXCEPT ![i].pc = "done",
                          ![i].result = processedWeb(web[i].path, web[i].configuration)]
    /\ UNCHANGED <<mode, errors, routed, pc, probe, raised, root, appDirectory,
                   configurationPath, configuration, ext, allExtensions, webs, app>>

\* this.loadWeb(path): one step of the task of one web file
LoadWeb ==
    \E i \in 1..Len(web) :
        \/ WebParseConfiguration(i)
        \/ WebResolveFramework(i)

\* await Promise.all(webs) resolved, then this.validateWebs(webs)
JoinWebs ==
    /\ pc = "webs"
    /\ \A i \in 1..Len(web) : web[i].pc = "done"
    /\ LET ws == [i \in 1..Len(web) |-> web[i].result]
           out == validateWebs(ws, mode)
       IN  /\ Effects(out)
           /\ IF out.st = "throw"
              THEN pc' = "raised" /\ raised' = out.err /\ UNCHANGED webs
              ELSE pc' = "assemble" /\ webs' = ws /\ UNCHANGED raised
    /\ UNCHANGED <<mode, probe, root, appDirectory, configurationPath, configuration,
                   ext, allExtensions, web, app>>

\* the App is built and returned
Assemble ==
    /\ pc = "assemble"
    /\ app' = loadedApp(appDirectory, configuration, configurationPath, webs,
                        allExtensions, errors)
    /\ pc' = "returned"
    /\ UNCHANGED <<mode, errors, routed, probe, raised, root, appDirectory,
                   configurationPath, configuration, ext, allExtensions, web, webs>>

----------------------------------------------------------------------------
(* The projects the load specifications run on *)

Decoded(doc) == [threw |-> FALSE, err |-> NoError, doc |-> doc]

Failed(err) == [threw |-> TRUE, err |-> err, doc |-> Undefined]

\* a TOML error on the second line
PositionalError == DecodeError("unexpected character", Num(1), Num(1), Num(2))

\* a TOML error on the first line, which has number 0
FirstLineError == DecodeError("unexpected character", Num(0), Num(1), Num(1))

\* a fault that is no TOML error
NonPositionalError == DecodeError("fault", Undefined, Undefined, Undefined)

AppDir == <<N("app")>>

DevConfigName == <<"d", "e", "v">>

LoadRoot(configName, content) ==
    [directory |-> joinPath(AppDir, <<N("extensions")>>),
     exists |-> TRUE,
     tomlDirs |-> {AppDir},
     configName |-> configName,
     cachedConfigFile |-> Undefined,
     configFiles |-> {joinPath(AppDir, <<AppConfigurationFileName>>),
                      joinPath(AppDir, <<ShopifyApp \o <<".">> \o DevConfigName \o DotToml>>)},
     content |-> content]

ValidRootContent == Decoded(Doc(Undefined, Undefined, {"app"}))

RootContents ==
    {ValidRootContent,
     Decoded(Doc(Undefined, Undefined, {})),
     Failed(PositionalError),
     Failed(FirstLineError),
     Failed(NonPositionalError)}

LoadRoots ==
    {LoadRoot(name, content) :
        name \in {Undefined, Chars(DevConfigName)}, content \in RootContents}

ValidRoots == {LoadRoot(Undefined, ValidRootContent)}

AllSchemas == {specifications[i].schema : i \in 1..Len(specifications)}

ExtensionKind(decoded, sources, validateOk) ==
    [decoded |-> decoded, sources |-> sources, validateOk |-> validateOk]

\* a valid UI extension with index.js and src/index.ts
ValidExtension ==
    ExtensionKind(Decoded(Doc(Str("ui_extension"), Undefined, AllSchemas)),
                  {<<<<"index", ".js">>>>, <<N("src"), <<"index", ".ts">>>>}, TRUE)

\* a UI extension, declared by the alias, without any entry point
NoEntryExtension ==
    ExtensionKind(Decoded(Doc(Str("ui_legacy"), Undefined, AllSchemas)), {}, TRUE)

\* a UI extension, declared by the external identifier, that fails its schema
\* and its own validation
InvalidExtension ==
    ExtensionKind(Decoded(Doc(Str("ui_extension_external"), Undefined, {})),
                  {<<N("src"), <<"index", ".tsx">>>>}, FALSE)

\* a UI extension that fails its own validation only
FailedValidationExtension ==
    ExtensionKind(Decoded(Doc(Str("ui_extension"), Undefined, AllSchemas)),
                  {<<<<"index", ".ts">>>>}, FALSE)

\* a function without entry point
FunctionExtension ==
    ExtensionKind(Decoded(Doc(Str("function"), Undefined, AllSchemas)), {}, TRUE)

UnknownTypeExtension ==
    ExtensionKind(Decoded(Doc(Str("unknown-kind"), Undefined, AllSchemas)), {}, TRUE)

NoTypeExtension ==
    ExtensionKind(Decoded(Doc(Undefined, Undefined, AllSchemas)), {}, TRUE)

MalformedExtension == ExtensionKind(Failed(PositionalError), {}, TRUE)

FaultExtension == ExtensionKind(Failed(NonPositionalError), {}, TRUE)

ExtensionKinds ==
    {ValidExtension, NoEntryExtension, InvalidExtension, FailedValidationExtension,
     FunctionExtension, UnknownTypeExtension, NoTypeExtension, MalformedExtension,
     FaultExtension}

CoreExtensionKinds ==
    {ValidExtension, NoEntryExtension, InvalidExtension, UnknownTypeExtension,
     MalformedExtension}

\* web files: the legacy type, the roles list, both, neither
BackendWeb == Decoded(Doc(Str("backend"), Undefined, {"web"}))

FrontendWeb == Decoded(Doc(Undefined, Arr({"frontend"}), {"web"}))

BackendFrontendWeb == Decoded(Doc(Str("backend"), Arr({"frontend"}), {"web"}))

BackgroundWeb == Decoded(Doc(Undefined, Arr({"background"}), {"web"}))

\* declares the backend role and fails the schema
InvalidWeb == Decoded(Doc(Str("backend"), Undefined, {}))

WebKinds ==
    {BackendWeb, FrontendWeb, BackendFrontendWeb, BackgroundWeb, InvalidWeb,
     Failed(PositionalError), Failed(FirstLineError), Failed(NonPositionalError)}

CoreWebKinds == {BackendWeb, BackendFrontendWeb, InvalidWeb}

----------------------------------------------------------------------------
(* The load specifications *)

InitLoad(roots) ==
    /\ mode \in Modes
    /\ errors = NoErrors
    /\ routed = <<>>
    /\ pc = "getAppDirectory"
    /\ probe = [fn |-> "load"]
    /\ raised = NoError
    /\ root \in roots
    /\ appDirectory = <<>>
    /\ configurationPath = <<>>
    /\ configuration = Undefined
    /\ ext = <<>>
    /\ allExtensions = <<>>
    /\ web = <<>>
    /\ webs = <<>>
    /\ app = NoApp

\* a load of a project with extension and web files
Init == InitLoad(LoadRoots)

Next ==
    \/ GetAppDirectory
    \/ GetConfigurationPath
    \/ ParseAppConfiguration
    \/ GlobExtensions(CoreExtensionKinds)
    \/ ExtensionTask
    \/ JoinExtensions
    \/ GlobWebs(CoreWebKinds)
    \/ LoadWeb
    \/ JoinWebs
    \/ Assemble

Spec == Init /\ [][Next]_vars

\* a load of a project with extension files of every kind and no web file
InitExt == InitLoad(ValidRoots)

NextExt ==
    \/ GetAppDirectory
    \/ GetConfigurationPath
    \/ ParseAppConfiguration
    \/ GlobExtensions(ExtensionKinds)
    \/ ExtensionTask
    \/ JoinExtensions
    \/ GlobWebs({})
    \/ JoinWebs
    \/ Assemble

SpecExt == InitExt /\ [][NextExt]_vars

\* a load of a project with web files of every kind and no extension file
InitWeb == InitLoad(ValidRoots)

NextWeb ==
    \/ GetAppDirectory
    \/ GetConfigurationPath
    \/ ParseAppConfiguration
    \/ GlobExtensions({})
    \/ JoinExtensions
    \/ GlobWebs(WebKinds)
    \/ LoadWeb
    \/ JoinWebs
    \/ Assemble

SpecWeb == InitWeb /\ [][NextWeb]_vars

----------------------------------------------------------------------------
(* SpecRoot: AppConfigurationLoader.loaded from every start directory *)

Segments == {N("a"), N("b")}

\* the directories of the file system: every path of at most MaxDepth segments
Directories == UNION {[1..k -> Segments] : k \in 0..MaxDepth}

\* at most two directories hold a file the glob shopify.app*.toml matches
TomlDirectories == {ds \in SUBSET Directories : Cardinality(ds) <= 2}

ResolveRoots ==
    {[directory |-> directory,
      exists |-> exists,
      tomlDirs |-> tomlDirs,
      configName |-> name,
      cachedConfigFile |-> Undefined,
      configFiles |-> {joinPath(d, <<AppConfigurationFileName>>) : d \in tomlDirs},
      content |-> ValidRootContent] :
        directory \in Directories, exists \in BOOLEAN, tomlDirs \in TomlDirectories,
        name \in {Undefined, Chars(DevConfigName)}}

InitRoot == InitLoad(ResolveRoots)

NextRoot ==
    \/ GetAppDirectory
    \/ GetConfigurationPath
    \/ ParseAppConfiguration

SpecRoot == InitRoot /\ [][NextRoot]_vars

----------------------------------------------------------------------------
(* SpecName: getAppConfigurationFileName, and again on what it answered *)

NameChars == {"d", "-", ".", " "}

\* the configuration names of one to MaxName characters
ConfigNames == UNION {[1..k -> NameChars] : k \in 1..MaxName}

\* no argument, the empty string, a name, a file name with the name as its
\* segment, and a file name with the name after shopify.app
NameInputs ==
    {Undefined, Chars(<<>>), Chars(AppConfigurationFileName)}
    \cup {Chars(d) : d \in ConfigNames}
    \cup {Chars(ShopifyApp \o <<".">> \o d \o DotToml) : d \in ConfigNames}
    \cup {Chars(ShopifyApp \o d \o DotToml) : d \in ConfigNames}

InitName ==
    /\ mode \in Modes
    /\ errors = NoErrors
    /\ routed = <<>>
    /\ pc = "name"
    /\ \E config \in NameInputs :
          probe = [fn |-> "getAppConfigurationFileName", config |-> config,
                   first |-> <<>>, second |-> <<>>]
    /\ NoLoad

CallGetAppConfigurationFileName ==
    /\ pc = "name"
    /\ probe' = [probe EXCEPT !.first = getAppConfigurationFileName(probe.config)]
    /\ pc' = "named"
    /\ UNCHANGED <<mode, errors, routed>>
    /\ UNCHANGED loadVars

CallGetAppConfigurationFileNameAgain ==
    /\ pc = "named"
    /\ probe' = [probe EXCEPT !.second = getAppConfigurationFileName(Chars(probe.first))]
    /\ pc' = "renamed"
    /\ UNCHANGED <<mode, errors, routed>>
    /\ UNCHANGED loadVars

NextName ==
    \/ CallGetAppConfigurationFileName
    \/ CallGetAppConfigurationFileNameAgain

SpecName == InitName /\ [][NextName]_vars

----------------------------------------------------------------------------
(* SpecPolicy: one AppLoader, abortOrReport called any number of times *)

\* absolute paths, the directory /__proto__ among them
PolicyPaths == {<<N("a")>>, <<N("b")>>, <<N("a"), N("b")>>, <<N("__proto__")>>}

PolicyMessages == {Msg("first", <<>>, ""), Msg("second", <<>>, "")}

PolicyFallbacks == {Undefined, Null, Str(""), EmptyObject}

InitPolicy ==
    /\ mode \in Modes
    /\ errors = NoErrors
    /\ routed = <<>>
    /\ pc = "policy"
    /\ probe = [fn |-> "none"]
    /\ NoLoad

CallAbortOrReport ==
    /\ pc = "policy"
    /\ \E path \in PolicyPaths, message \in PolicyMessages, fallback \in PolicyFallbacks :
          LET out == abortOrReport(mode, message, fallback, path)
          IN  /\ errors' = AddErrors(errors, out.reps)
              /\ probe' = [fn |-> "abortOrReport", errorMessage |-> message,
                           fallback |-> fallback, path |-> path,
                           before |-> errors, out |-> out]
    /\ UNCHANGED <<mode, routed, pc>>
    /\ UNCHANGED loadVars

NextPolicy == CallAbortOrReport

SpecPolicy == InitPolicy /\ [][NextPolicy]_vars

----------------------------------------------------------------------------
(* SpecEntry: findEntryPath on every set of candidate files *)

EntryDirectory == <<N("app"), N("extensions"), N("ext")>>

EntryFiles ==
    {joinPath(EntryDirectory, rel) :
        rel \in Range(SingleEntryCandidates) \cup Range(FunctionEntryCandidates)}

InitEntry ==
    /\ mode \in Modes
    /\ errors = NoErrors
    /\ routed = <<>>
    /\ pc = "entry"
    /\ \E i \in 1..Len(specifications), files \in SUBSET EntryFiles :
          probe = [fn |-> "findEntryPath", directory |-> EntryDirectory,
                   specification |-> specifications[i], files |-> files,
                   out |-> NoOutcome]
    /\ NoLoad

CallFindEntryPath ==
    /\ pc = "entry"
    /\ LET out == findEntryPath(probe.directory, probe.specification, mode, probe.files)
       IN  /\ errors' = AddErrors(errors, out.reps)
           /\ routed' = Count(routed, out.calls)
           /\ probe' = [probe EXCEPT !.out = out]
    /\ pc' = "called"
    /\ UNCHANGED mode
    /\ UNCHANGED loadVars

NextEntry == CallFindEntryPath

SpecEntry == InitEntry /\ [][NextEntry]_vars

----------------------------------------------------------------------------
(* SpecParse: parseConfigurationFile on every kind of file *)

ParsePath == <<N("app"), <<"shopify", ".web", ".toml">> >>

Positions == {Undefined} \cup {Num(n) : n \in 0..MaxPos}

ParseErrors ==
    {DecodeError("unexpected character", line, col, pos) :
        line \in Positions, col \in Positions, pos \in Positions}

\* what a decode function may yield: a document that passes the schema, one
\* that does not, an empty document, and values that are no object
ParseDocuments ==
    {Doc(Undefined, Undefined, {"schema"}), Doc(Str("x"), Undefined, {}),
     EmptyObject, Str(""), Str("text"), Null, Num(0), Undefined}

ParseFiles ==
    {[exists |-> FALSE, decoded |-> [threw |-> FALSE, err |-> NoError, doc |-> Undefined]]}
    \cup {[exists |-> TRUE, decoded |-> [threw |-> TRUE, err |-> e, doc |-> Undefined]] :
             e \in ParseErrors}
    \cup {[exists |-> TRUE, decoded |-> [threw |-> FALSE, err |-> NoError, doc |-> d]] :
             d \in ParseDocuments}

InitParse ==
    /\ mode \in Modes
    /\ errors = NoErrors
    /\ routed = <<>>
    /\ pc = "parse"
    /\ \E policy \in {"abort", mode}, file \in ParseFiles :
          probe = [fn |-> "parseConfigurationFile", schema |-> "schema",
                   filepath |-> ParsePath, policy |-> policy, file |-> file,
                   out |-> NoOutcome]
    /\ NoLoad

CallParseConfigurationFile ==
    /\ pc = "parse"
    /\ LET out == parseConfigurationFile(probe.schema, probe.filepath, probe.policy,
                                         probe.file)
       IN  /\ errors' = AddErrors(errors, out.reps)
           /\ routed' = Count(routed, out.calls)
           /\ probe' = [probe EXCEPT !.out = out]
    /\ pc' = "called"
    /\ UNCHANGED mode
    /\ UNCHANGED loadVars

NextParse == CallParseConfigurationFile

SpecParse == InitParse /\ [][NextParse]_vars

----------------------------------------------------------------------------
(* Claims about the policy function, entry point probing and the parser *)

C1_PolicyPost ==
    probe.fn = "abortOrReport" =>
        /\ mode = "strict" =>
              /\ probe.out.st = "throw"
              /\ probe.out.err.name = "AbortError"
              /\ probe.out.err.message = probe.errorMessage
              /\ errors = probe.before
        /\ mode = "report" =>
              /\ probe.out.st = "return"
              /\ probe.out.val = probe.fallback
              /\ DOMAIN errors = (DOMAIN probe.before) \cup {probe.path}
              /\ errors[probe.path] = probe.errorMessage
              /\ \A k \in (DOMAIN probe.before) \ {probe.path} :
                    errors[k] = probe.before[k]

\* C1: every abortOrReport call behaves by the loader's mode: in strict mode it
\* throws an AbortError carrying the message and leaves the ErrorSet as it was;
\* in report mode it sets ErrorSet[path] to the message, replacing an earlier
\* message and leaving every other key alone, and returns the fallback.  The
\* mode never changes.
C1_AbortOrReportByMode == [][mode' = mode /\ C1_PolicyPost']_vars

\* C1 witness: a report-mode call replaced a different earlier message of its
\* path while another key was present
C1_Witness ==
    /\ mode = "report"
    /\ probe.fn = "abortOrReport"
    /\ probe.path \in DOMAIN probe.before
    /\ probe.before[probe.path] # probe.errorMessage
    /\ errors[probe.path] = probe.errorMessage
    /\ \E k \in DOMAIN probe.before : k # probe.path

\* the order the claim gives: top-level index.{js,jsx,ts,tsx}, then src/
ClaimedProbeOrder ==
    << <<"index.js">>, <<"index.jsx">>, <<"index.ts">>, <<"index.tsx">>,
       <<"src", "index.js">>, <<"src", "index.jsx">>,
       <<"src", "index.ts">>, <<"src", "index.tsx">> >>

\* the order of the code: for each extension in turn, src/ before top-level
InterleavedProbeOrder ==
    << <<"src", "index.js">>, <<"index.js">>, <<"src", "index.jsx">>, <<"index.jsx">>,
       <<"src", "index.ts">>, <<"index.ts">>, <<"src", "index.tsx">>, <<"index.tsx">> >>

\* the path of a candidate written as "index.js" or "src" "index.js"
CandidatePath(directory, c) ==
    LET FileName(f) ==
            CASE f = "index.js" -> <<"index", ".js">>
              [] f = "index.jsx" -> <<"index", ".jsx">>
              [] f = "index.ts" -> <<"index", ".ts">>
              [] f = "index.tsx" -> <<"index", ".tsx">>
    IN  IF Len(c) = 1
        THEN Append(directory, FileName(c[1]))
        ELSE directory \o <<N(c[1]), FileName(c[2])>>

\* findEntryPath, for a single-entry-point specification, returned the first
\* candidate of order that exists and, when none exists, went through the policy
ProbesInOrder(order) ==
    (pc = "called" /\ probe.fn = "findEntryPath" /\ probe.specification.singleEntryPath) =>
        LET Present(i) == CandidatePath(probe.directory, order[i]) \in probe.files
        IN  IF \E i \in 1..Len(order) : Present(i)
            THEN /\ probe.out.st = "return"
                 /\ \E i \in 1..Len(order) :
                       /\ Present(i)
                       /\ \A j \in 1..(i - 1) : ~Present(j)
                       /\ probe.out.val = PathV(CandidatePath(probe.directory, order[i]))
                 /\ probe.out.calls = <<>>
                 /\ errors = NoErrors
            ELSE /\ probe.out.calls = << <<probe.directory,
                                           Msg("EntryMissing", probe.directory, "")>> >>
                 /\ mode = "strict" =>
                       /\ probe.out.st = "throw"
                       /\ probe.out.err = AbortError(Msg("EntryMissing", probe.directory, ""))
                       /\ errors = NoErrors
                 /\ mode = "report" =>
                       /\ probe.out.st = "return"
                       /\ probe.out.val = Undefined
                       /\ DOMAIN errors = {probe.directory}
                       /\ errors[probe.directory] = Msg("EntryMissing", probe.directory, "")

\* C5 as claimed: the candidates are probed top-level first (index.js, index.jsx,
\* index.ts, index.tsx, then the same four under src) and the first existing one
\* is returned; with none, the problem goes through the policy.
C5_ClaimedOrder == ProbesInOrder(ClaimedProbeOrder)

\* C5 as amended: the candidates are probed in the order src/index.js, index.js,
\* src/index.jsx, index.jsx, src/index.ts, index.ts, src/index.tsx, index.tsx and
\* the first existing one is returned; with none, the problem goes through the
\* policy (AbortError in strict mode, a diagnostic under the extension directory
\* in report mode).
C5_InterleavedOrder == ProbesInOrder(InterleavedProbeOrder)

\* C5 witness: index.js and src/index.js both exist and src/index.js was returned
C5_Witness ==
    /\ pc = "called"
    /\ probe.fn = "findEntryPath"
    /\ probe.specification.singleEntryPath
    /\ CandidatePath(probe.directory, <<"index.js">>) \in probe.files
    /\ CandidatePath(probe.directory, <<"src", "index.js">>) \in probe.files
    /\ probe.out.val = PathV(CandidatePath(probe.directory, <<"src", "index.js">>))

\* exactly index.js and src/index.ts of the eight candidates exist
OnlyIndexJsAndSrcIndexTs ==
    {f \in probe.files :
        \E i \in 1..Len(ClaimedProbeOrder) :
            f = CandidatePath(probe.directory, ClaimedProbeOrder[i])}
    = {CandidatePath(probe.directory, <<"index.js">>),
       CandidatePath(probe.directory, <<"src", "index.ts">>)}

\* C6: with index.js and src/index.ts the only candidates present, a
\* single-entry-point specification resolves to the top-level index.js.
C6_TopLevelIndexJs ==
    (/\ pc = "called"
     /\ probe.fn = "findEntryPath"
     /\ probe.specification.singleEntryPath
     /\ OnlyIndexJsAndSrcIndexTs)
    => /\ probe.out.st = "return"
       /\ probe.out.val = PathV(CandidatePath(probe.directory, <<"index.js">>))

\* C6 witness: the probe ran on exactly these two files and returned index.js
C6_Witness ==
    /\ pc = "called"
    /\ probe.fn = "findEntryPath"
    /\ probe.specification.singleEntryPath
    /\ OnlyIndexJsAndSrcIndexTs
    /\ probe.out.val = PathV(CandidatePath(probe.directory, <<"index.js">>))

\* C7: a decode failure carrying a line and a column, whatever their values, is
\* handed to onProblem with a message embedding the decode message; a decode
\* failure without them is thrown on unchanged and handed to nothing.
C7_PositionalRouted ==
    (/\ pc = "called"
     /\ probe.fn = "parseConfigurationFile"
     /\ probe.file.exists
     /\ probe.file.decoded.threw)
    => LET err == probe.file.decoded.err
       IN  IF err.line.t = "number" /\ err.col.t = "number"
           THEN probe.out.calls =
                   << <<probe.filepath,
                        Msg("FixError", probe.filepath, err.message[3])>> >>
           ELSE /\ probe.out.st = "throw"
                /\ probe.out.err = err
                /\ probe.out.calls = <<>>
                /\ errors = NoErrors

----------------------------------------------------------------------------
(* Claims about the load *)

\* every identifier the registry accepts
RegistryIdentifiers ==
    UNION {{specifications[k].identifier}
           \cup (IF specifications[k].externalIdentifier.t = "string"
                 THEN {specifications[k].externalIdentifier.v} ELSE {})
           \cup (IF specifications[k].additionalIdentifiers.t = "array"
                 THEN specifications[k].additionalIdentifiers.v ELSE {}) :
           k \in 1..Len(specifications)}

\* extension file i decodes, declares a type, and the registry has no such type
UnknownTypeFile(i) ==
    /\ ~ext[i].file.decoded.threw
    /\ ext[i].file.decoded.doc.t = "object"
    /\ ext[i].file.decoded.doc.v.type.t = "string"
    /\ ext[i].file.decoded.doc.v.type.v \notin RegistryIdentifiers

\* a task other than extension task i rejected the load
OtherTaskRejected(i) ==
    \/ \E j \in 1..Len(ext) : j # i /\ ext[j].pc = "rejected"
    \/ \E j \in 1..Len(web) : web[j].pc = "rejected"

\* C2: an extension file whose declared type matches no registry entry: in
\* strict mode the load never returns; in report mode its task does not reject
\* the load (the load raises only when another file's task rejects it), and the
\* returned Application has no extension of that file and has the file's path
\* as a key of its ErrorSet.
C2_UnknownTypeSkipped ==
    \A i \in 1..Len(ext) :
        UnknownTypeFile(i) =>
            /\ mode = "strict" => pc # "returned" /\ app = NoApp
            /\ mode = "report" =>
                  /\ ext[i].pc # "rejected"
                  /\ pc = "raised" => OtherTaskRejected(i)
                  /\ pc = "returned" =>
                        /\ \A k \in 1..Len(app.allExtensions) :
                              app.allExtensions[k].configurationPath
                                  # ext[i].configurationPath
                        /\ app.errors.set
                        /\ ext[i].configurationPath \in DOMAIN app.errors.value

\* C2 witness: a report-mode load returned an Application with an extension,
\* and another of its extension files declares an unknown type
C2_Witness ==
    /\ mode = "report"
    /\ pc = "returned"
    /\ Len(app.allExtensions) >= 1
    /\ \E i \in 1..Len(ext) : UnknownTypeFile(i)

\* the web file with this decode outcome is valid and declares the role
DeclaresRole(decoded, role) ==
    /\ ~decoded.threw
    /\ decoded.doc.t = "object"
    /\ "web" \in decoded.doc.v.conformsTo
    /\ \/ decoded.doc.v.type.t = "string" /\ decoded.doc.v.type.v = role
       \/ decoded.doc.v.roles.t = "array" /\ role \in decoded.doc.v.roles.v

FilesDeclaring(role) == {i \in 1..Len(web) : DeclaresRole(web[i].file.decoded, role)}

\* the second smallest member of a set of numbers
SecondOf(S) ==
    CHOOSE i \in S : Cardinality({j \in S : j < i}) = 1

RoleConflict(role) == Msg("RoleConflict", <<>>, role)

\* the roles validateWebs checks that two or more web files declare
ConflictingRoles ==
    {role \in {"backend", "frontend"} : Cardinality(FilesDeclaring(role)) >= 2}

\* the path of the second web file declaring the role, in the order of the glob
SecondWebPath(role) == web[SecondOf(FilesDeclaring(role))].path

\* C3 as claimed: two or more webs declare the backend role and a report-mode
\* load returned: the ErrorSet holds exactly one role conflict, under the
\* configuration path of the second of them, and every web is in the output.
C3_ExactlyOneRoleConflict ==
    (mode = "report" /\ pc = "returned" /\ Cardinality(FilesDeclaring("backend")) >= 2) =>
        /\ app.errors.set
        /\ {k \in DOMAIN app.errors.value : app.errors.value[k][1] = "RoleConflict"}
              = {SecondWebPath("backend")}
        /\ Len(app.webs) = Len(web)

\* C3 as amended: two or more webs declare the backend role and a report-mode
\* load returned: for the backend role, and for the frontend role when two or
\* more webs declare it too, exactly one role conflict went to the policy,
\* once, keyed to the configuration path of the second web of the role in
\* enumeration order; the ErrorSet holds a role conflict under these keys and
\* no other, the frontend one where the two keys are one; every web is in the
\* output, in order.
C3_SecondBackendFlagged ==
    (mode = "report" /\ pc = "returned" /\ Cardinality(FilesDeclaring("backend")) >= 2) =>
        /\ {r \in DOMAIN routed : r[2][1] = "RoleConflict"}
              = {<<SecondWebPath(role), RoleConflict(role)>> : role \in ConflictingRoles}
        /\ \A role \in ConflictingRoles :
              routed[<<SecondWebPath(role), RoleConflict(role)>>] = 1
        /\ app.errors.set
        /\ {k \in DOMAIN app.errors.value : app.errors.value[k][1] = "RoleConflict"}
              = {SecondWebPath(role) : role \in ConflictingRoles}
        /\ \A role \in ConflictingRoles :
              app.errors.value[SecondWebPath(role)] =
                  IF /\ "frontend" \in ConflictingRoles
                     /\ SecondWebPath(role) = SecondWebPath("frontend")
                  THEN RoleConflict("frontend")
                  ELSE RoleConflict(role)
        /\ Len(app.webs) = Len(web)
        /\ \A i \in 1..Len(web) : app.webs[i].directory = dirname(web[i].path)

\* C3 witness: a report-mode load returned three webs, the first two declaring
\* the backend role and the last two the frontend role
C3_Witness ==
    /\ mode = "report"
    /\ pc = "returned"
    /\ FilesDeclaring("backend") = {1, 2}
    /\ FilesDeclaring("frontend") = {2, 3}
    /\ Len(app.webs) = 3

\* C4: in strict mode a load of a project in which two or more webs declare the
\* backend role, or two or more the frontend role, never returns, and a returned
\* Application has at most one web of each of these roles.
C4_StrictOneWebPerRole ==
    mode = "strict" =>
        \A role \in {"backend", "frontend"} :
            /\ Cardinality(FilesDeclaring(role)) >= 2 => pc # "returned" /\ app = NoApp
            /\ pc = "returned" =>
                  Cardinality({i \in 1..Len(app.webs) :
                                 role \in app.webs[i].configuration.roles}) <= 1

\* C4 witness: a strict load with a single backend web raised on two frontend webs
C4_Witness ==
    /\ mode = "strict"
    /\ pc = "raised"
    /\ Cardinality(FilesDeclaring("backend")) = 1
    /\ Cardinality(FilesDeclaring("frontend")) >= 2
    /\ raised = AbortError(RoleConflict("frontend"))

\* the root configuration file decodes with a positional error or fails the schema
RootContentRejected ==
    \/ /\ root.content.threw
       /\ root.content.err.line.t = "number"
       /\ root.content.err.col.t = "number"
    \/ /\ ~root.content.threw
       /\ ~(root.content.doc.t = "object" /\ "app" \in root.content.doc.v.conformsTo)

\* C8 as claimed: with such a root configuration file a report-mode load does
\* not raise, and returns with the diagnostic under the root configuration path.
C8_RootContentReported ==
    (RootContentRejected /\ mode = "report") =>
        /\ pc # "raised"
        /\ pc = "returned" => configurationPath \in DOMAIN errors

\* C8 as amended: with such a root configuration file the load raises in both
\* modes: it never gets past parsing the root configuration, records nothing
\* in the ErrorSet and returns no Application.
C8_RootContentRaises ==
    RootContentRejected =>
        /\ pc \in {"getAppDirectory", "getConfigurationPath", "parseConfiguration", "raised"}
        /\ pc = "raised" => raised.name \in {"AbortError", "DecodeError"}
        /\ errors = NoErrors
        /\ app = NoApp

\* C8 witness: a report-mode load raised on a root configuration failing its schema
C8_Witness ==
    /\ mode = "report"
    /\ pc = "raised"
    /\ ~root.content.threw
    /\ raised = AbortError(Msg("SchemaError", configurationPath, "issues"))

\* no file of the project decodes with a fault that carries no position
OnlyRoutedProblems ==
    /\ \A i \in 1..Len(ext) :
          ext[i].file.decoded.threw =>
              /\ ext[i].file.decoded.err.line.t = "number"
              /\ ext[i].file.decoded.err.col.t = "number"
    /\ \A i \in 1..Len(web) :
          web[i].file.decoded.threw =>
              /\ web[i].file.decoded.err.line.t = "number"
              /\ web[i].file.decoded.err.col.t = "number"

\* extension file i has a problem of its own: malformed, no or unknown type,
\* schema-invalid, or failing its validation
ProblemExtension(i) ==
    \/ ext[i].file.decoded.threw
    \/ ext[i].file.decoded.doc.v.type.t # "string"
    \/ UnknownTypeFile(i)
    \/ ext[i].file.decoded.doc.v.conformsTo = {}
    \/ ~ext[i].validateOk

\* C9: in report mode, with a valid root configuration and only problems of
\* the routed kinds in the extension and web files, the load never raises, and
\* every file with a problem has an entry in the ErrorSet of the Application.
C9_ReportNeverRaises ==
    (mode = "report" /\ root.content = ValidRootContent /\ OnlyRoutedProblems) =>
        /\ pc # "raised"
        /\ pc = "returned" =>
              \A i \in 1..Len(ext) :
                  ProblemExtension(i) =>
                      /\ app.errors.set
                      /\ ext[i].configurationPath \in DOMAIN app.errors.value

\* the path of the root configuration file the configuration name selects
ExpectedConfigurationPath ==
    IF root.configName.t = "undefined"
    THEN <<N("app"),
           <<"s", "h", "o", "p", "i", "f", "y", ".", "a", "p", "p", ".",
             "t", "o", "m", "l">> >>
    ELSE <<N("app"),
           <<"s", "h", "o", "p", "i", "f", "y", ".", "a", "p", "p", ".",
             "d", "e", "v", ".", "t", "o", "m", "l">> >>

\* C10 as claimed: with a valid root configuration file the load returns,
\* whatever the mode and the other files, an Application with the path of the
\* root configuration file and without errors.
C10_AlwaysReturnsWithoutErrors ==
    root.content = ValidRootContent =>
        /\ pc # "raised"
        /\ pc = "returned" =>
              /\ app.configurationPath = ExpectedConfigurationPath
              /\ ~app.errors.set

\* C10 as amended: with a valid root configuration file, an Application the
\* load returns has the path of the root configuration file that was read, and
\* has errors unset exactly when no problem went to the policy during the load,
\* which in strict mode is always.
C10_PathAndErrorsOnReturn ==
    (root.content = ValidRootContent /\ pc = "returned") =>
        /\ app.configurationPath = ExpectedConfigurationPath
        /\ app.configurationPath = configurationPath
        /\ app.configurationPath \in root.configFiles
        /\ app.errors.set <=> routed # <<>>
        /\ app.errors.set => app.errors.value = errors
        /\ mode = "strict" => ~app.errors.set

\* C10 witness: a load with a named configuration returned an Application
\* carrying errors
C10_Witness ==
    /\ pc = "returned"
    /\ root.configName.t = "chars"
    /\ app.configurationPath = ExpectedConfigurationPath
    /\ app.errors.set

----------------------------------------------------------------------------
(* Claims about the root directory resolution *)

\* the start directory and its ancestors, up to the file system root
Ancestors(directory) == {SubSeq(directory, 1, k) : k \in 0..Len(directory)}

\* the start directory and the ancestors in which the glob finds a file
MatchingAncestors == Ancestors(root.directory) \cap root.tomlDirs

\* the state the root directory resolution leaves behind
C11_ResolutionPost ==
    /\ errors' = errors
    /\ routed' = routed
    /\ mode' = mode
    /\ IF ~root.exists
       THEN /\ pc' = "raised"
            /\ raised' = AbortError(Msg("NoDirectory", root.directory, ""))
       ELSE IF MatchingAncestors = {}
       THEN /\ pc' = "raised"
            /\ raised' = AbortError(Msg("NoAppConfig", root.directory, ""))
       ELSE /\ pc' = "getConfigurationPath"
            /\ raised' = NoError
            /\ appDirectory' \in MatchingAncestors
            /\ \A d \in MatchingAncestors : Len(d) <= Len(appDirectory')

\* C11: in both modes the root directory resolution raises one error when the
\* start directory does not exist, another when neither the start directory
\* nor an ancestor holds a file matching the root configuration pattern, and
\* otherwise answers the nearest such directory walking upward from the start;
\* it writes nothing to the ErrorSet and hands nothing to the policy.
C11_RootDirectoryResolution ==
    [][pc = "getAppDirectory" => C11_ResolutionPost]_vars

\* C11 witness: the resolution ran from an existing start directory that holds
\* no matching file, with two ancestors that do, and answered the nearer one
C11_Witness ==
    /\ pc = "getConfigurationPath"
    /\ root.exists
    /\ Cardinality(MatchingAncestors) = 2
    /\ root.directory \notin MatchingAncestors
    /\ appDirectory # <<>>
    /\ appDirectory \in MatchingAncestors

----------------------------------------------------------------------------
(* Claims about the root configuration file name *)

\* C12: the file name getAppConfigurationFileName answers for a configuration
\* name is answered unchanged when it is passed back, for every non-empty
\* name; without an argument the answer is the default file name.
C12_FileNameRoundTrip ==
    /\ (pc # "name" /\ probe.config.t = "undefined")
          => probe.first = AppConfigurationFileName
    /\ pc = "renamed" => probe.second = probe.first

----------------------------------------------------------------------------
(* Claims about the order of the results and the ErrorSet of a load *)

\* the extension file of this task declares a type of the registry
KnownTypeTask(e) ==
    /\ ~e.file.decoded.threw
    /\ e.file.decoded.doc.t = "object"
    /\ e.file.decoded.doc.v.type.t = "string"
    /\ e.file.decoded.doc.v.type.v \in RegistryIdentifiers

\* the paths of the extension files, in the order of the glob, without the
\* files that match no specification
EnumeratedExtensionPaths ==
    LET kept == SelectSeq(ext, KnownTypeTask)
    IN  [k \in 1..Len(kept) |-> kept[k].configurationPath]

\* C13: whatever the order in which the tasks of the files ran and finished,
\* the extensions of a returned Application are in the order of the glob of
\* their files, without the files that matched no specification, its webs are
\* in the order of the glob of theirs, and a role conflict that went to the
\* policy is keyed to the second web of the role in that order.
C13_EnumerationOrder ==
    pc = "returned" =>
        /\ [k \in 1..Len(app.allExtensions) |-> app.allExtensions[k].configurationPath]
              = EnumeratedExtensionPaths
        /\ [k \in 1..Len(app.webs) |-> app.webs[k].directory]
              = [k \in 1..Len(web) |-> dirname(web[k].path)]
        /\ \A r \in DOMAIN routed :
              r[2][1] = "RoleConflict" =>
                  r[1] = web[SecondOf(FilesDeclaring(r[2][3]))].path

\* C13 witness: a load returned two extensions and two webs with a role
\* conflict among the webs
C13_Witness ==
    /\ pc = "returned"
    /\ Len(app.allExtensions) = 2
    /\ Len(app.webs) = 2
    /\ \E r \in DOMAIN routed : r[2][1] = "RoleConflict"

\* the identifiers a specification answers to
IdentifiersOf(sp) ==
    {sp.identifier}
    \cup (IF sp.externalIdentifier.t = "string" THEN {sp.externalIdentifier.v} ELSE {})
    \cup (IF sp.additionalIdentifiers.t = "array" THEN sp.additionalIdentifiers.v ELSE {})

\* the first specification of the registry that answers to the type
SpecificationOfType(type) ==
    specifications[CHOOSE k \in 1..Len(specifications) :
                      /\ type \in IdentifiersOf(specifications[k])
                      /\ \A j \in 1..(k - 1) : type \notin IdentifiersOf(specifications[j])]

\* what the ErrorSet is to hold for extension file i, which decodes and declares
\* a type: under its path the unknown type, else the failed validation, else
\* the schema error; under its directory the missing entry point
ExpectedExtensionEntries(i) ==
    LET path == ext[i].configurationPath
        dir == dirname(path)
        doc == ext[i].file.decoded.doc.v
    IN  IF ~KnownTypeTask(ext[i])
        THEN {<<path, Msg("UnknownType", path, doc.type.v)>>}
        ELSE LET sp == SpecificationOfType(doc.type.v)
             IN  (IF ~ext[i].validateOk
                  THEN {<<path, Msg("Validation", <<>>, "validate")>>}
                  ELSE IF sp.schema \notin doc.conformsTo
                  THEN {<<path, Msg("SchemaError", path, "issues")>>}
                  ELSE {})
                 \cup
                 (IF /\ sp.singleEntryPath
                     /\ \A k \in 1..Len(InterleavedProbeOrder) :
                           CandidatePath(dir, InterleavedProbeOrder[k]) \notin ext[i].files
                  THEN {<<dir, Msg("EntryMissing", dir, "")>>}
                  ELSE {})

\* web file i is the second web of the role
SecondOfRole(i, role) ==
    /\ Cardinality(FilesDeclaring(role)) >= 2
    /\ i = SecondOf(FilesDeclaring(role))

\* what the ErrorSet is to hold under the path of web file i: the frontend role
\* conflict, else the backend role conflict, else the problem of the file
ExpectedWebEntries(i) ==
    LET path == web[i].path
        decoded == web[i].file.decoded
    IN  IF SecondOfRole(i, "frontend") THEN {<<path, RoleConflict("frontend")>>}
        ELSE IF SecondOfRole(i, "backend") THEN {<<path, RoleConflict("backend")>>}
        ELSE IF decoded.threw
        THEN {<<path, Msg("FixError", path, decoded.err.message[3])>>}
        ELSE IF ~(decoded.doc.t = "object" /\ "web" \in decoded.doc.v.conformsTo)
        THEN {<<path, Msg("SchemaError", path, "issues")>>}
        ELSE {}

\* C14 as claimed: in report mode no ErrorSet key is written twice, by one
\* problem or by two, of one file or of two.
C14_KeyWrittenOnce ==
    mode = "report" =>
        \A r1, r2 \in DOMAIN routed :
            /\ routed[r1] = 1
            /\ r1[1] = r2[1] => r1 = r2

\* C14 as amended: the ErrorSet of a load that returned in report mode is
\* decided by the files alone, whatever the interleaving of the tasks: each
\* key holds the last problem written under it in the order of its one file
\* or of the role validation, and two files writing one key write one message.
C14_ErrorSetDecidedByFiles ==
    (mode = "report" /\ pc = "returned") =>
        /\ {<<k, errors[k]>> : k \in DOMAIN errors}
              = UNION ({ExpectedExtensionEntries(i) : i \in 1..Len(ext)}
                       \cup {ExpectedWebEntries(i) : i \in 1..Len(web)})
        /\ app.errors.value = errors

\* C14 witness: a report-mode load returned after two extension files wrote the
\* key of their directory and both role conflicts were written under one web
C14_Witness ==
    /\ mode = "report"
    /\ pc = "returned"
    /\ \E r \in DOMAIN routed : r[2][1] = "EntryMissing" /\ routed[r] = 2
    /\ \E i \in 1..Len(web) : SecondOfRole(i, "frontend") /\ SecondOfRole(i, "backend")

\* C15: in strict mode the ErrorSet is empty in every state of a load, and a
\* load in which a problem went to the policy has raised and returns nothing;
\* a returned Application carries errors exactly when the load ran in report
\* mode and a problem went to the policy during it.
C15_StrictAccumulatesNothing ==
    /\ mode = "strict" =>
          /\ errors = NoErrors
          /\ routed # <<>> => pc = "raised" /\ app = NoApp
    /\ pc = "returned" =>
          /\ app.errors.set <=> (mode = "report" /\ routed # <<>>)
          /\ app.errors.set => app.errors.value # NoErrors

\* C15 witness: a strict load raised on a routed problem, a second task went to
\* the policy after that, and the ErrorSet is empty
C15_Witness ==
    /\ mode = "strict"
    /\ pc = "raised"
    /\ raised.name = "AbortError"
    /\ Cardinality(DOMAIN routed) >= 2
    /\ errors = NoErrors

----------------------------------------------------------------------------
(* Claims about parseConfigurationFile *)

\* the file of the call is missing, fails decoding with a line and a column, or
\* decodes to a document the schema rejects
ProblemFile(file) ==
    \/ ~file.exists
    \/ /\ file.decoded.threw
       /\ file.decoded.err.line.t = "number"
       /\ file.decoded.err.col.t = "number"
    \/ /\ ~file.decoded.threw
       /\ ~(file.decoded.doc.t = "object"
            /\ probe.schema \in file.decoded.doc.v.conformsTo)

\* C16: parseConfigurationFile returns without a call of onProblem only for an
\* existing file that decodes to a document passing the schema, and then
\* returns the document as the validator typed it; whatever decode yields,
\* falsy values included, goes through the validator; a missing, positionally
\* malformed or schema-invalid file makes exactly one call of onProblem, for
\* the path of the file.
C16_ParseRoutesEveryProblem ==
    (pc = "called" /\ probe.fn = "parseConfigurationFile") =>
        LET file == probe.file
            out == probe.out
        IN  /\ (out.st = "return" /\ out.calls = <<>>) =>
                  /\ ~ProblemFile(file)
                  /\ out.val = file.decoded.doc
            /\ ProblemFile(file) =>
                  /\ Len(out.calls) = 1
                  /\ out.calls[1][1] = probe.filepath

====
